---- MODULE Spec2Model ----
(***************************************************************************)
(* The transaction-plan executor behind the MultisigTrade card             *)
(* (clients/web/components/MultisigTrade.tsx -> useTransactionExecutor).   *)
(* One executor instance: the attached plan, the wallet connection         *)
(* snapshot, the ExecutionState, and the command invocations that are      *)
(* suspended on a chain switch or on a submitted transaction.              *)
(***************************************************************************)
EXTENDS Integers, Sequences, FiniteSets, Bags, TLC

\* ------------------------------------------------------------------ bounds
MaxPlanLen == 3        \* longest attached plan (2 approval steps + main step)
MaxInFlight == 2       \* command invocations that may be suspended at once

\* --------------------------------------------------------------- constants
\* chainId written into every plan step by the extract functions
ArbitrumSepolia == 421614
\* some other network the connected wallet may be on
OtherChain == ArbitrumSepolia + 1
PlanChains == {ArbitrumSepolia}
WalletChains == {ArbitrumSepolia, OtherChain}
\* chainId of useAccount() while no wallet is connected
NoChain == 0

\* txPlan: TxPlan | null -- a plan is a record so that null compares with plans.
NULL == [present |-> FALSE, steps |-> <<>>]
Plan(steps) == [present |-> TRUE, steps |-> steps]

\* TxStep: only chainId is read by the executor; to/data/value are opaque.
TxStep == [chainId : PlanChains]
TxPlans == {Plan(steps) : steps \in UNION {[1..n -> TxStep] : n \in 0..MaxPlanLen}}

SendErrors == {"wallet-rejected", "transaction-reverted", "unknown"}
ErrorReasons == {"chain-switch-failed"} \cup SendErrors
Status == {"idle", "pending", "success"} \cup ErrorReasons

VARIABLES
    txPlan,          \* prop txPlan of the card, handed to the executor
    isConnected,     \* useAccount().isConnected
    chainId,         \* useAccount().chainId
    approvalIndex,   \* ExecutionState.approvalIndex
    stepStatus,      \* ExecutionState.stepStatus, one entry per approval step
    mainStatus,      \* ExecutionState.mainStatus
    inflight,        \* bag of suspended command invocations
    lastCall,        \* the command invoked by the latest step, if any
    response,        \* agent response handed to an extract function
    extracted,       \* { txPreview, txPlan } the extract function returned
    txPreview,       \* whether the card's txPreview prop is non-null
    instruction,     \* the instruction an agent's processUserInput is given
    task,            \* what processUserInput settled with
    verifier,        \* LocationVerifier: its state and the run of verifyLocation
    script           \* the build-and-monitor script: flags, position, outcomes

vars == <<txPlan, isConnected, chainId, approvalIndex, stepStatus, mainStatus, inflight, lastCall,
          response, extracted, txPreview, instruction, task, verifier, script>>
agentSide == <<response, extracted>>
requestSide == <<instruction, task>>
\* what the executor and its card leave alone
elsewhere == <<agentSide, requestSide, verifier, script>>
wallet == <<isConnected, chainId>>
execState == <<approvalIndex, stepStatus, mainStatus>>

\* the card passing a fixed chain instead of the wallet's
currentChainIdHardcoded == ArbitrumSepolia

\* executor input currentChainId: the card passes useAccount().chainId
currentChainId == chainId

\* the card passing a constant instead of the wallet's connection flag
isConnectedInputAlwaysTrue == TRUE

\* executor input isConnected: the card passes !!useAccount().isConnected
isConnectedInput == isConnected

NoCall == [cmd |-> "none", gate |-> FALSE]
Call(cmd, gate) == [cmd |-> cmd, gate |-> gate]

\* ------------------------------------------------------------ derived state
PlanLen(p) == IF p = NULL THEN 0 ELSE Len(p.steps)

Max(a, b) == IF a >= b THEN a ELSE b

TotalApprovalsOf(p) == Max(0, PlanLen(p) - 1)

totalApprovals == TotalApprovalsOf(txPlan)

\* a gate that only tests the plan for null ([] is truthy)
planPresentNonNull == txPlan # NULL

\* a plan with zero steps is "nothing to execute"
planPresent == txPlan # NULL /\ PlanLen(txPlan) > 0

isApprovalPhaseComplete == approvalIndex = totalApprovals

anyStepPending == mainStatus = "pending" \/ \E i \in DOMAIN stepStatus : stepStatus[i] = "pending"

isApprovalPending == approvalIndex \in DOMAIN stepStatus /\ stepStatus[approvalIndex] = "pending"

isTxPending == mainStatus = "pending"

isTxSuccess == mainStatus = "success"

canApprove == isConnectedInput /\ planPresent /\ ~isApprovalPhaseComplete /\ ~anyStepPending

canExecute ==
    isConnectedInput /\ planPresent /\ isApprovalPhaseComplete /\ mainStatus # "pending" /\ mainStatus # "success"

\* absent error (txError / approvalError undefined)
NoError == "none"

txError == IF mainStatus \in ErrorReasons THEN mainStatus ELSE NoError

approvalError ==
    IF approvalIndex \in DOMAIN stepStatus /\ stepStatus[approvalIndex] \in ErrorReasons
    THEN stepStatus[approvalIndex]
    ELSE NoError

\* ------------------------------------------------------ the MultisigTrade card
needsApproval == totalApprovals > 0

\* {txPlan && txPreview && (...)}
transactionCard == txPlan # NULL /\ txPreview

\* if (txPreview && !txPlan) return (the read-only card)
readOnlyCard == txPreview /\ txPlan = NULL

\* the status section rendered without looking at the connection
statusSectionWithoutConnection == transactionCard

\* {isConnected ? (status banners and buttons) : (connect prompt)}
statusSection == transactionCard /\ isConnected

bannerTxSuccess == statusSection /\ isTxSuccess

\* the Executing banner kept up from the first attempt until success
bannerTxPendingUntilSuccess == statusSection /\ mainStatus # "idle" /\ ~isTxSuccess

bannerTxPending == statusSection /\ isTxPending

bannerTxError == statusSection /\ txError # NoError

\* {needsApproval && (<button onClick={approveNext} disabled={!canApprove}>)}
approveButton == statusSection /\ needsApproval

approveButtonEnabled == approveButton /\ canApprove

\* <button onClick={executeMain} disabled={!canExecute}>
executeButton == statusSection

\* the Execute button without its disabled attribute
executeButtonNeverDisabled == executeButton

executeButtonEnabled == executeButton /\ canExecute

\* {needsApproval && isApprovalPending && (`Processing Approval k/N...`)}
bannerApprovalPending == statusSection /\ needsApproval /\ isApprovalPending

\* the Approve button's label while pending: `Approving k/N...`
labelApproving == approveButton /\ isApprovalPending

\* the progress text showing the 0-based cursor
progressStepZeroBased == approvalIndex

\* k of the progress texts: ${approvalIndex + 1}
progressStep == approvalIndex + 1

FreshStepStatus(p) == [i \in 0..(TotalApprovalsOf(p) - 1) |-> "idle"]

\* ------------------------------------------------------ suspended invocations
\* Each suspended invocation remembers the command, the step it was started
\* for, that step's chain and where it is suspended: "switch" (awaiting
\* switchChain) or "send" (awaiting sendTransaction: wallet signature and
\* on-chain confirmation).
Invocation(cmd, i, chain, pc) == [cmd |-> cmd, step |-> i, chain |-> chain, pc |-> pc]

Suspended == BagToSet(inflight)

Add(inv) == inflight (+) SetToBag({inv})

Remove(inv) == inflight (-) SetToBag({inv})

Move(inv, pc) == (inflight (-) SetToBag({inv})) (+) SetToBag({[inv EXCEPT !.pc = pc]})

HasRoom == BagCardinality(inflight) < MaxInFlight

\* The status write of an invocation lands on the step it was started for;
\* an invocation of a replaced plan writes to a discarded ExecutionState.
SetStatus(inv, st) ==
    CASE inv.cmd = "approve" ->
            /\ stepStatus' = [stepStatus EXCEPT ![inv.step] = st]
            /\ UNCHANGED mainStatus
      [] inv.cmd = "main" ->
            /\ mainStatus' = st
            /\ UNCHANGED stepStatus
      [] OTHER -> UNCHANGED <<stepStatus, mainStatus>>

\* Chain-switch-then-submit sequence shared by both commands: (a) switch the
\* chain when it differs and suspend, otherwise (b) mark pending and (c) submit.
Begin(cmd, i, step) ==
    IF currentChainId # step.chainId
    THEN /\ inflight' = Add(Invocation(cmd, i, step.chainId, "switch"))
         /\ UNCHANGED <<stepStatus, mainStatus>>
    ELSE /\ inflight' = Add(Invocation(cmd, i, step.chainId, "send"))
         /\ SetStatus(Invocation(cmd, i, step.chainId, "send"), "pending")

\* ---------------------------------------------------------- agent responses
\* operation names of CounterAgentResponse / MultisigTradeAgentResponse metadata
CounterOps == {"read", "increment", "set"}

MultisigOps ==
    {"swap", "initialize", "deposit", "submitTransaction", "confirmTransaction",
     "executeTransaction", "revokeConfirmation",
     "getTransactionDetails", "getOwners", "getTransactionCount", "isOwner"}

ReadOnlyOps == {"read", "getTransactionDetails", "getOwners", "getTransactionCount", "isOwner"}

WriteOps == (CounterOps \cup MultisigOps) \ ReadOnlyOps

\* sample field values of metadata.txData
Addresses == {"0xA", "0xB"}
CallDatas == {"0x", "0x01"}
WeiValues == {"0", "1"}

\* metadata?: and txData?: are optional
NoTxData == [present |-> FALSE]
TxData == [present : {TRUE}, to : Addresses, data : CallDatas, value : WeiValues]
NoMetadata == [present |-> FALSE]
Metadata(ops) == [present : {TRUE}, operation : ops, txData : TxData \cup {NoTxData}]

\* a response together with the client function that handles it
Responses ==
    [agent : {"counter"}, metadata : Metadata(CounterOps) \cup {NoMetadata}]
    \cup [agent : {"multisig", "multisigEarlier"}, metadata : Metadata(MultisigOps) \cup {NoMetadata}]

NoResponse == [agent |-> "none", metadata |-> NoMetadata]
NotExtracted == [done |-> FALSE]
Extracted(preview, plan) == [done |-> TRUE, txPreview |-> preview, txPlan |-> plan]

\* txPreview: null, or the preview object (only its operation is modelled)
NoPreview == [present |-> FALSE]
Preview(metadata) == [present |-> TRUE, operation |-> metadata.operation]

\* the single step built from metadata.txData
StepOf(txData) ==
    [to |-> txData.to, data |-> txData.data, value |-> txData.value, chainId |-> ArbitrumSepolia]

extractCounterTransactionData(resp) ==
    LET metadata == resp.metadata
    IN  IF ~metadata.present
        THEN Extracted(NoPreview, NULL)
        ELSE Extracted(Preview(metadata),
                       IF metadata.txData.present /\ metadata.operation \in {"increment", "set"}
                       THEN Plan(<<StepOf(metadata.txData)>>)
                       ELSE NULL)

\* the earlier variant of multisigUtils.ts (submitTransaction, no deposit)
extractMultisigTransactionDataEarlier(resp) ==
    LET metadata == resp.metadata
    IN  IF ~metadata.present
        THEN Extracted(NoPreview, NULL)
        ELSE Extracted(Preview(metadata),
                       IF /\ metadata.txData.present
                          /\ metadata.operation \in {"swap", "initialize", "submitTransaction",
                                                     "confirmTransaction", "executeTransaction"}
                       THEN Plan(<<StepOf(metadata.txData)>>)
                       ELSE NULL)

\* a plan built whenever txData is present, whatever the operation
extractMultisigTransactionDataAnyOperation(resp) ==
    LET metadata == resp.metadata
    IN  IF ~metadata.present
        THEN Extracted(NoPreview, NULL)
        ELSE Extracted(Preview(metadata),
                       IF metadata.txData.present
                       THEN Plan(<<StepOf(metadata.txData)>>)
                       ELSE NULL)

extractMultisigTransactionData(resp) ==
    LET metadata == resp.metadata
    IN  IF ~metadata.present
        THEN Extracted(NoPreview, NULL)
        ELSE Extracted(Preview(metadata),
                       IF /\ metadata.txData.present
                          /\ metadata.operation \in {"swap", "initialize", "deposit",
                                                     "confirmTransaction", "executeTransaction",
                                                     "revokeConfirmation"}
                       THEN Plan(<<StepOf(metadata.txData)>>)
                       ELSE NULL)

\* no instruction given, nothing settled; LocationVerifier not mounted; the
\* script not run
NoInstruction == [agent |-> "none"]
NoTask == [outcome |-> "none"]
NoVerifier == [pc |-> "unmounted"]
NoScript == [pc |-> "notRun"]

\* ----------------------------------------------------------------- init
Init ==
    /\ txPlan = NULL
    /\ isConnected = FALSE
    /\ chainId = NoChain
    /\ approvalIndex = 0
    /\ stepStatus = FreshStepStatus(NULL)
    /\ mainStatus = "idle"
    /\ inflight = EmptyBag
    /\ lastCall = NoCall
    /\ response = NoResponse
    /\ extracted = NotExtracted
    /\ txPreview = FALSE
    /\ instruction = NoInstruction /\ task = NoTask
    /\ verifier = NoVerifier
    /\ script = NoScript

\* --------------------------------------------------------------- commands
\* approveNext whose gate forgets the "no step currently pending" conjunct
approveNextIgnoringPending ==
    /\ lastCall' = Call("approveNext", canApprove)
    /\ UNCHANGED <<txPreview, elsewhere>>
    /\ IF isConnected /\ planPresent /\ ~isApprovalPhaseComplete /\ approvalIndex \in DOMAIN stepStatus
       THEN /\ HasRoom
            /\ Begin("approve", approvalIndex, txPlan.steps[approvalIndex + 1])
            /\ UNCHANGED <<txPlan, wallet, approvalIndex>>
       ELSE UNCHANGED <<txPlan, wallet, execState, inflight>>

approveNext ==
    /\ lastCall' = Call("approveNext", canApprove)
    /\ UNCHANGED <<txPreview, elsewhere>>
    /\ IF canApprove /\ approvalIndex \in DOMAIN stepStatus
       THEN /\ HasRoom
            /\ Begin("approve", approvalIndex, txPlan.steps[approvalIndex + 1])
            /\ UNCHANGED <<txPlan, wallet, approvalIndex>>
       ELSE UNCHANGED <<txPlan, wallet, execState, inflight>>

executeMain ==
    /\ lastCall' = Call("executeMain", canExecute)
    /\ UNCHANGED <<txPreview, elsewhere>>
    /\ IF canExecute
       THEN /\ HasRoom
            /\ Begin("main", totalApprovals, txPlan.steps[PlanLen(txPlan)])
            /\ UNCHANGED <<txPlan, wallet, approvalIndex>>
       ELSE UNCHANGED <<txPlan, wallet, execState, inflight>>

\* ------------------------------------------------- wallet promise outcomes
SwitchResolve(inv) ==
    /\ inv.pc = "switch"
    /\ isConnected
    /\ chainId' = inv.chain
    /\ SetStatus(inv, "pending")
    /\ inflight' = Move(inv, "send")
    /\ lastCall' = NoCall
    /\ UNCHANGED <<txPreview, elsewhere>>
    /\ UNCHANGED <<txPlan, isConnected, approvalIndex>>

SwitchReject(inv) ==
    /\ inv.pc = "switch"
    /\ SetStatus(inv, "chain-switch-failed")
    /\ inflight' = Remove(inv)
    /\ lastCall' = NoCall
    /\ UNCHANGED <<txPreview, elsewhere>>
    /\ UNCHANGED <<txPlan, wallet, approvalIndex>>

\* a confirmation that marks the step but forgets to advance the cursor
SendSuccessWithoutIncrement(inv) ==
    /\ inv.pc = "send"
    /\ SetStatus(inv, "success")
    /\ inflight' = Remove(inv)
    /\ lastCall' = NoCall
    /\ UNCHANGED <<txPreview, elsewhere>>
    /\ UNCHANGED <<txPlan, wallet, approvalIndex>>

\* sendTransaction(step) settles once, after the wallet prompt and the
\* on-chain confirmation: { success: true } or { success: false, reason }.
SendSuccess(inv) ==
    /\ inv.pc = "send"
    /\ SetStatus(inv, "success")
    /\ approvalIndex' = IF inv.cmd = "approve" THEN approvalIndex + 1 ELSE approvalIndex
    /\ inflight' = Remove(inv)
    /\ lastCall' = NoCall
    /\ UNCHANGED <<txPreview, elsewhere>>
    /\ UNCHANGED <<txPlan, wallet>>

\* a failure that puts the step back to idle instead of recording the error
SendFailureBackToIdle(inv, reason) ==
    /\ inv.pc = "send"
    /\ SetStatus(inv, "idle")
    /\ inflight' = Remove(inv)
    /\ lastCall' = NoCall
    /\ UNCHANGED <<txPreview, elsewhere>>
    /\ UNCHANGED <<txPlan, wallet, approvalIndex>>

SendFailure(inv, reason) ==
    /\ inv.pc = "send"
    /\ SetStatus(inv, reason)
    /\ inflight' = Remove(inv)
    /\ lastCall' = NoCall
    /\ UNCHANGED <<txPreview, elsewhere>>
    /\ UNCHANGED <<txPlan, wallet, approvalIndex>>

\* ------------------------------------------------------------- environment
\* An invocation of a replaced plan keeps its outstanding wallet request but
\* no longer belongs to the attached plan's ExecutionState.
\* an invocation of a replaced plan that goes on writing the ExecutionState
StaleStillWriting(inv) == inv

Stale(inv) == [inv EXCEPT !.cmd = "stale", !.step = 0]

RECURSIVE StaleAll(_, _)
StaleAll(bag, todo) ==
    IF todo = {} THEN EmptyBag
    ELSE LET inv == CHOOSE x \in todo : TRUE
         IN  [k \in {Stale(inv)} |-> bag[inv]] (+) StaleAll(bag, todo \ {inv})

\* a replacement that keeps the progress of the replaced plan
AttachPlanKeepingProgress(p) ==
    /\ txPlan' = p
    /\ stepStatus' = FreshStepStatus(p)
    /\ inflight' = StaleAll(inflight, Suspended)
    /\ lastCall' = NoCall
    /\ \E preview \in BOOLEAN : (p # NULL => preview) /\ txPreview' = preview
    /\ UNCHANGED elsewhere
    /\ UNCHANGED <<wallet, approvalIndex, mainStatus>>

AttachPlan(p) ==
    /\ txPlan' = p
    /\ approvalIndex' = 0
    /\ stepStatus' = FreshStepStatus(p)
    /\ mainStatus' = "idle"
    /\ inflight' = StaleAll(inflight, Suspended)
    /\ lastCall' = NoCall
    /\ \E preview \in BOOLEAN : (p # NULL => preview) /\ txPreview' = preview
    /\ UNCHANGED elsewhere
    /\ UNCHANGED wallet

Connect(c) ==
    /\ ~isConnected
    /\ isConnected' = TRUE
    /\ chainId' = c
    /\ lastCall' = NoCall
    /\ UNCHANGED <<txPreview, elsewhere>>
    /\ UNCHANGED <<txPlan, execState, inflight>>

Disconnect ==
    /\ isConnected
    /\ isConnected' = FALSE
    /\ chainId' = NoChain
    /\ lastCall' = NoCall
    /\ UNCHANGED <<txPreview, elsewhere>>
    /\ UNCHANGED <<txPlan, execState, inflight>>

ExternalChainChange(c) ==
    /\ isConnected
    /\ chainId # c
    /\ chainId' = c
    /\ lastCall' = NoCall
    /\ UNCHANGED <<txPreview, elsewhere>>
    /\ UNCHANGED <<txPlan, isConnected, execState, inflight>>

Next ==
    \/ approveNext
    \/ executeMain
    \/ \E inv \in Suspended : SwitchResolve(inv)
    \/ \E inv \in Suspended : SwitchReject(inv)
    \/ \E inv \in Suspended : SendSuccess(inv)
    \/ \E inv \in Suspended : \E r \in SendErrors : SendFailure(inv, r)
    \/ \E p \in TxPlans \cup {NULL} : AttachPlan(p)
    \/ \E c \in WalletChains : Connect(c)
    \/ Disconnect
    \/ \E c \in WalletChains : ExternalChainChange(c)

Spec == Init /\ [][Next]_vars

\* every outstanding wallet request eventually resolves or rejects
Settle(inv) ==
    \/ SwitchResolve(inv)
    \/ SwitchReject(inv)
    \/ SendSuccess(inv)
    \/ \E r \in SendErrors : SendFailure(inv, r)

Invocations ==
    [cmd : {"approve", "main", "stale"}, step : 0..MaxPlanLen, chain : PlanChains, pc : {"switch", "send"}]

WalletSettles == \A inv \in Invocations : WF_vars(Settle(inv))

SpecLive == Init /\ [][Next]_vars /\ WalletSettles

\* --------------------------------------------- the card as the only caller
\* The commands are reached through the card's buttons only: onClick fires
\* on a button that is rendered and not disabled.
ClickApprove == approveButtonEnabled /\ approveNext

ClickExecute == executeButtonEnabled /\ executeMain

NextCard ==
    \/ ClickApprove
    \/ ClickExecute
    \/ \E inv \in Suspended : SwitchResolve(inv)
    \/ \E inv \in Suspended : SwitchReject(inv)
    \/ \E inv \in Suspended : SendSuccess(inv)
    \/ \E inv \in Suspended : \E r \in SendErrors : SendFailure(inv, r)
    \/ \E p \in TxPlans \cup {NULL} : AttachPlan(p)
    \/ \E c \in WalletChains : Connect(c)
    \/ Disconnect
    \/ \E c \in WalletChains : ExternalChainChange(c)

SpecCard == Init /\ [][NextCard]_vars

\* ------------------------------------------ the client's extract functions
\* A response of one of the agents arrives and the matching extract function
\* is applied to it; the executor is left in its initial state.
executorSide == <<txPlan, wallet, execState, inflight, lastCall>>
\* what the extract functions leave alone
besideExtract == <<executorSide, txPreview, requestSide, verifier, script>>

InitExtract ==
    /\ txPlan = NULL
    /\ isConnected = FALSE
    /\ chainId = NoChain
    /\ approvalIndex = 0
    /\ stepStatus = FreshStepStatus(NULL)
    /\ mainStatus = "idle"
    /\ inflight = EmptyBag
    /\ lastCall = NoCall
    /\ response \in Responses
    /\ extracted = NotExtracted
    /\ txPreview = FALSE
    /\ instruction = NoInstruction /\ task = NoTask
    /\ verifier = NoVerifier
    /\ script = NoScript

ExtractCounter ==
    /\ response.agent = "counter"
    /\ extracted = NotExtracted
    /\ extracted' = extractCounterTransactionData(response)
    /\ UNCHANGED <<response, besideExtract>>

ExtractMultisig ==
    /\ response.agent = "multisig"
    /\ extracted = NotExtracted
    /\ extracted' = extractMultisigTransactionData(response)
    /\ UNCHANGED <<response, besideExtract>>

ExtractMultisigEarlier ==
    /\ response.agent = "multisigEarlier"
    /\ extracted = NotExtracted
    /\ extracted' = extractMultisigTransactionDataEarlier(response)
    /\ UNCHANGED <<response, besideExtract>>

NextResponse(resp) ==
    /\ extracted # NotExtracted
    /\ response' = resp
    /\ extracted' = NotExtracted
    /\ UNCHANGED besideExtract

NextExtract ==
    \/ ExtractCounter
    \/ ExtractMultisig
    \/ ExtractMultisigEarlier
    \/ \E resp \in Responses : NextResponse(resp)

SpecExtract == InitExtract /\ [][NextExtract]_vars

\* ------------------------------------------------- the agents' processUserInput
\* An instruction is abstracted to what decides the control flow: the agent
\* asked, what parseInstruction returns (an operation type of the agent's
\* switch, or an exception), whether the operation's required fields pass the
\* check of its case, and whether the handler fails (contract read, encoding,
\* swap agent).
Agents == {"CounterAgent", "MultisigTradeAgent", "MultisigTradeAgentSubmit"}

\* the cases of the switch in processUserInput
AgentOps(agent) ==
    CASE agent = "CounterAgent" -> {"read", "increment", "set"}
      [] agent = "MultisigTradeAgent" ->
            {"swap", "initialize", "deposit", "confirmTransaction", "executeTransaction",
             "revokeConfirmation", "getTransactionDetails", "getOwners",
             "getTransactionCount", "isOwner"}
      [] agent = "MultisigTradeAgentSubmit" ->
            {"swap", "initialize", "submitTransaction", "confirmTransaction",
             "executeTransaction", "isOwner"}

\* the cases that throw when a required field is missing
CheckedOps(agent) ==
    CASE agent = "CounterAgent" -> {"set"}
      [] agent = "MultisigTradeAgent" -> AgentOps(agent) \ {"getOwners", "getTransactionCount"}
      [] agent = "MultisigTradeAgentSubmit" -> AgentOps(agent)

\* the handlers whose Task carries metadata.txData
TxDataOps(agent) ==
    CASE agent = "CounterAgent" -> {"increment", "set"}
      [] agent = "MultisigTradeAgent" ->
            {"swap", "initialize", "deposit", "confirmTransaction", "executeTransaction",
             "revokeConfirmation"}
      [] agent = "MultisigTradeAgentSubmit" ->
            {"swap", "initialize", "submitTransaction", "confirmTransaction",
             "executeTransaction"}

Instructions ==
    UNION {[agent : {a}, parsed : AgentOps(a) \cup {"throws"}, fields : BOOLEAN,
            handler : {"ok", "throws"}] : a \in Agents}

\* txData: { to: contract address, data: encoded call, value }
AgentTxData == [present |-> TRUE, to |-> "0xA", data |-> "0x01", value |-> "0"]

\* metadata: { error: errorMessage } has neither operation nor txData
ErrorMetadata == [present |-> TRUE, operation |-> "undefined", txData |-> NoTxData]

Thrown == [outcome |-> "thrown"]
Rejected == [outcome |-> "rejected"]
Returned(state, metadata) == [outcome |-> "returned", state |-> state, metadata |-> metadata]

createErrorTask(agent) ==
    Returned("failed", IF agent = "MultisigTradeAgentSubmit" THEN ErrorMetadata ELSE NoMetadata)

\* handleRead ... handleIsOwner: the Task of a handler, or its exception
handle(in) ==
    IF in.handler = "throws"
    THEN IF in.agent = "MultisigTradeAgentSubmit" /\ in.parsed = "isOwner"
         THEN Returned("failed", [present |-> TRUE, operation |-> "isOwner", txData |-> NoTxData])
         ELSE Thrown
    ELSE Returned(IF in.agent = "MultisigTradeAgentSubmit" /\ in.parsed # "isOwner"
                  THEN "pending" ELSE "completed",
                  [present |-> TRUE, operation |-> in.parsed,
                   txData |-> IF in.parsed \in TxDataOps(in.agent) THEN AgentTxData ELSE NoTxData])

\* the try block of processUserInput
tryBlock(in) ==
    IF in.parsed = "throws" THEN Thrown
    ELSE IF in.parsed \in CheckedOps(in.agent) /\ ~in.fields THEN Thrown
    ELSE handle(in)

\* processUserInput without its catch block
processUserInputWithoutCatch(in) ==
    LET r == tryBlock(in)
    IN  IF r.outcome = "thrown" THEN Rejected ELSE r

processUserInput(in) ==
    LET r == tryBlock(in)
    IN  IF r.outcome = "thrown" THEN createErrorTask(in.agent) ELSE r

\* the extract functions a client may apply to an agent's Task
ClientsOf(agent) ==
    IF agent = "CounterAgent" THEN {"counter"} ELSE {"multisig", "multisigEarlier"}

Process(in) ==
    /\ instruction = NoInstruction /\ task = NoTask
    /\ instruction' = in
    /\ task' = processUserInput(in)
    /\ UNCHANGED <<executorSide, txPreview, agentSide, verifier, script>>

\* the Task reaches the web client as the agent's response
Deliver(client) ==
    /\ task # NoTask /\ task.outcome = "returned"
    /\ response = NoResponse
    /\ client \in ClientsOf(instruction.agent)
    /\ response' = [agent |-> client, metadata |-> task.metadata]
    /\ UNCHANGED <<extracted, besideExtract>>

NextInstruction ==
    /\ extracted # NotExtracted \/ (task # NoTask /\ task.outcome = "rejected")
    /\ instruction' = NoInstruction /\ task' = NoTask
    /\ response' = NoResponse /\ extracted' = NotExtracted
    /\ UNCHANGED <<executorSide, txPreview, verifier, script>>

NextAgent ==
    \/ \E in \in Instructions : Process(in)
    \/ \E client \in {"counter", "multisig", "multisigEarlier"} : Deliver(client)
    \/ ExtractCounter
    \/ ExtractMultisig
    \/ ExtractMultisigEarlier
    \/ NextInstruction

SpecAgent == Init /\ [][NextAgent]_vars

\* ------------------------------------------- LocationVerifier.verifyLocation
\* verifier.pc is where the run of verifyLocation is suspended ("idle": no run);
\* returned and invoked record, for the latest run, what verifyProof returned
\* and whether onVerificationSuccess was called; attempts counts the calls of
\* groth16.fullProve in the run, wasmOk is wasmResponse.ok.
\* the messages the catch block tells apart, and an exception without one
ErrorMessages ==
    {"Assert Failed", "Failed to load verification files", "WebAssembly", "NetworkError",
     "magic word", "404", "other"}

NoMessage == "no message"

Mounted(contractLoaded) ==
    [pc |-> "idle", contract |-> contractLoaded, inputValid |-> FALSE, loading |-> FALSE,
     error |-> "null", verificationResult |-> "null", wasmOk |-> FALSE,
     returned |-> "none", invoked |-> FALSE, attempts |-> 0]

\* the component mounts; loadContract sets contract and signer, or fails
Mount(contractLoaded) ==
    /\ verifier = NoVerifier
    /\ verifier' = Mounted(contractLoaded)
    /\ UNCHANGED <<executorSide, txPreview, agentSide, requestSide, script>>

\* location and bounding box get filled in or cleared: isInputValid()
InputChange(valid) ==
    /\ verifier.pc # "unmounted"
    /\ verifier.inputValid # valid
    /\ verifier' = [verifier EXCEPT !.inputValid = valid]
    /\ UNCHANGED <<executorSide, txPreview, agentSide, requestSide, script>>

\* catch (err) { setError(...) } finally { setLoading(false) }; reading
\* err.message of an exception without one throws out of the catch block
Caught(v, message) ==
    [v EXCEPT !.pc = "idle",
              !.error = IF message = NoMessage THEN v.error
                        ELSE IF message = "other" THEN "Verification failed" ELSE message,
              !.loading = FALSE]

\* onVerificationSuccess called whatever verifyProof returned
calledAlways(result) == TRUE

\* if (result) { onVerificationSuccess() }
called(result) == result = "true"

\* <Button onClick={verifyLocation} disabled={!isInputValid() || loading}>
verifyLocation ==
    /\ verifier.pc = "idle"
    /\ verifier.inputValid /\ ~verifier.loading
    /\ LET started == [verifier EXCEPT !.loading = TRUE, !.error = "null",
                                        !.returned = "none", !.invoked = FALSE, !.attempts = 0]
       IN  verifier' = IF ~verifier.contract
                       THEN Caught(started, "other")
                       ELSE [started EXCEPT !.pc = "fetchWasm"]
    /\ UNCHANGED <<executorSide, txPreview, agentSide, requestSide, script>>

\* await fetch('/LocationVerifier.wasm') settles
WasmFetched(outcome) ==
    /\ verifier.pc = "fetchWasm"
    /\ verifier' = IF outcome = "rejects"
                    THEN Caught(verifier, "Failed to load verification files")
                    ELSE [verifier EXCEPT !.pc = "fetchZkey", !.wasmOk = (outcome = "ok")]
    /\ UNCHANGED <<executorSide, txPreview, agentSide, requestSide, script>>

\* await fetch('/LocationVerifier_final.zkey') settles, then both are tested
ZkeyFetched(outcome) ==
    /\ verifier.pc = "fetchZkey"
    /\ verifier' = IF outcome # "ok" \/ ~verifier.wasmOk
                    THEN Caught(verifier, "Failed to load verification files")
                    ELSE [verifier EXCEPT !.pc = "prove"]
    /\ UNCHANGED <<executorSide, txPreview, agentSide, requestSide, script>>

\* groth16.fullProve settles: first with the relative, then with absolute URLs
Proved(ok, message) ==
    /\ verifier.pc = "prove"
    /\ verifier' =
          IF ok THEN [verifier EXCEPT !.pc = "calldata", !.attempts = @ + 1]
          ELSE IF verifier.attempts = 0 THEN [verifier EXCEPT !.attempts = 1]
          ELSE Caught([verifier EXCEPT !.attempts = 2], message)
    /\ UNCHANGED <<executorSide, txPreview, agentSide, requestSide, script>>

\* groth16.exportSolidityCallData settles and JSON.parse reads its result
CalldataExported(ok, message) ==
    /\ verifier.pc = "calldata"
    /\ verifier' = IF ok THEN [verifier EXCEPT !.pc = "verifyProof"] ELSE Caught(verifier, message)
    /\ UNCHANGED <<executorSide, txPreview, agentSide, requestSide, script>>

\* contract.verifyProof settles
VerifyProofDone(result, message) ==
    /\ verifier.pc = "verifyProof"
    /\ verifier' =
          IF result = "throws" THEN Caught(verifier, message)
          ELSE [verifier EXCEPT !.pc = "idle", !.verificationResult = result,
                                !.returned = result, !.invoked = called(result),
                                !.loading = FALSE]
    /\ UNCHANGED <<executorSide, txPreview, agentSide, requestSide, script>>

NextVerifier ==
    \/ \E contractLoaded \in BOOLEAN : Mount(contractLoaded)
    \/ \E valid \in BOOLEAN : InputChange(valid)
    \/ verifyLocation
    \/ \E outcome \in {"ok", "notOk", "rejects"} : WasmFetched(outcome)
    \/ \E outcome \in {"ok", "notOk", "rejects"} : ZkeyFetched(outcome)
    \/ \E ok \in BOOLEAN, message \in ErrorMessages \cup {NoMessage} : Proved(ok, message)
    \/ \E ok \in BOOLEAN, message \in ErrorMessages \cup {NoMessage} : CalldataExported(ok, message)
    \/ \E result \in {"true", "false", "throws"}, message \in ErrorMessages \cup {NoMessage} :
          VerifyProofDone(result, message)

SpecVerifier == Init /\ [][NextVerifier]_vars

\* ------------------------------------------- the build-and-monitor script
\* script.pc is the command the script is waiting in: "buildMonitor",
\* "runtimeMonitor", "manualMonitor" (the command substitution around
\* start_resource_monitoring), "build" (docker compose build | tee), "up"
\* (docker compose up -d | tee), "waiting" (sleep 30), "monitoring" (the 5
\* minute loop), "down" (docker compose down | tee), "read" (monitor-only), "exited".
\* monitor is the background monitor-resources.sh: "none", "running", "exited";
\* imagesBuilt and containersUp are what docker did, warned whether the loop
\* found containers stopped, interrupted whether it was left by Ctrl+C.
Launched(buildOnly, monitorOnly, monitorScript) ==
    [pc |-> "main", buildOnly |-> buildOnly, monitorOnly |-> monitorOnly,
     monitorScript |-> monitorScript, monitor |-> "none",
     buildRet |-> "none", runtimeRet |-> "none", runtimeStarted |-> FALSE,
     imagesBuilt |-> "none", containersUp |-> FALSE, warned |-> FALSE,
     interrupted |-> FALSE, report |-> FALSE, failurePrinted |-> FALSE, exit |-> "none"]

\* start_resource_monitoring inside $( ): the monitor is started in the
\* background if ./monitor-resources.sh exists
start_resource_monitoring(sc, pc) ==
    [sc EXCEPT !.pc = pc, !.monitor = IF sc.monitorScript THEN "running" ELSE sc.monitor]

\* stop_resource_monitoring: kill $monitor_pid; wait $monitor_pid
stop_resource_monitoring(sc) ==
    [sc EXCEPT !.monitor = IF sc.monitor = "running" THEN "exited" ELSE sc.monitor]

\* a pipeline without pipefail has the status of its last command, tee
PipelineStatus(docker, tee) == tee

\* the tail of main: the report on success, otherwise the failure and exit 1
Finish(sc, success) ==
    IF success
    THEN [sc EXCEPT !.pc = "exited", !.report = TRUE, !.exit = "0"]
    ELSE [sc EXCEPT !.pc = "exited", !.failurePrinted = TRUE, !.exit = "1"]

\* main going on to runtime_phase although build_phase failed
AfterBuildAlwaysRuntime(sc) ==
    IF ~sc.buildOnly
    THEN start_resource_monitoring([sc EXCEPT !.runtimeStarted = TRUE], "runtimeMonitor")
    ELSE Finish(sc, sc.buildRet = "0")

\* main after build_phase returned: if [ "$BUILD_ONLY" = false ] ... fi
AfterBuild(sc) ==
    IF sc.buildRet = "0" /\ ~sc.buildOnly
    THEN start_resource_monitoring([sc EXCEPT !.runtimeStarted = TRUE], "runtimeMonitor")
    ELSE Finish(sc, sc.buildRet = "0")

\* the script is run: argument parsing, the bc test, check_prerequisites,
\* then main up to its first wait
Launch(buildOnly, monitorOnly, monitorScript, prerequisites) ==
    /\ script = NoScript
    /\ script' =
          LET sc == Launched(buildOnly, monitorOnly, monitorScript)
          IN  IF ~prerequisites THEN [sc EXCEPT !.pc = "exited", !.failurePrinted = TRUE, !.exit = "1"]
              ELSE IF monitorOnly THEN start_resource_monitoring(sc, "manualMonitor")
              ELSE start_resource_monitoring(sc, "buildMonitor")
    /\ UNCHANGED <<executorSide, txPreview, agentSide, requestSide, verifier>>

\* monitor-resources.sh ends: it loops until it is interrupted or killed
MonitorExits ==
    /\ script.pc # "notRun"
    /\ script.monitor = "running"
    /\ script' = [script EXCEPT !.monitor = "exited"]
    /\ UNCHANGED <<executorSide, txPreview, agentSide, requestSide, verifier>>

\* local monitor_pid=$(start_resource_monitoring ...) returns: the
\* substitution reads the function's output to its end, and the background
\* monitor holds that output open for as long as it runs
MonitorPidRead ==
    /\ script.pc \in {"buildMonitor", "runtimeMonitor", "manualMonitor"}
    /\ script.monitor # "running"
    /\ script' = [script EXCEPT !.pc = CASE script.pc = "buildMonitor" -> "build"
                                        [] script.pc = "runtimeMonitor" -> "up"
                                        [] script.pc = "manualMonitor" -> "read"]
    /\ UNCHANGED <<executorSide, txPreview, agentSide, requestSide, verifier>>

\* docker compose build | tee ends; build_phase stops the monitor and returns,
\* main goes on
BuildDone(docker, tee) ==
    /\ script.pc = "build"
    /\ script' = AfterBuild([stop_resource_monitoring(script) EXCEPT
                                !.imagesBuilt = IF docker THEN "yes" ELSE "no",
                                !.buildRet = IF PipelineStatus(docker, tee) THEN "0" ELSE "1"])
    /\ UNCHANGED <<executorSide, txPreview, agentSide, requestSide, verifier>>

\* docker compose up -d | tee ends; on failure runtime_phase stops the monitor
\* and returns 1 at once
UpDone(docker, tee) ==
    /\ script.pc = "up"
    /\ script' = IF PipelineStatus(docker, tee)
                  THEN [script EXCEPT !.pc = "waiting", !.containersUp = docker]
                  ELSE Finish([stop_resource_monitoring(script) EXCEPT
                                  !.runtimeRet = "1", !.containersUp = docker], FALSE)
    /\ UNCHANGED <<executorSide, txPreview, agentSide, requestSide, verifier>>

\* sleep 30 is over, docker compose ps is printed and the loop begins
Initialized ==
    /\ script.pc = "waiting"
    /\ script' = [script EXCEPT !.pc = "monitoring"]
    /\ UNCHANGED <<executorSide, txPreview, agentSide, requestSide, verifier>>

\* a pass of the loop finds fewer running containers than services
ContainersStopped ==
    /\ script.pc = "monitoring"
    /\ ~script.warned
    /\ script' = [script EXCEPT !.warned = TRUE, !.containersUp = FALSE]
    /\ UNCHANGED <<executorSide, txPreview, agentSide, requestSide, verifier>>

\* the monitoring period ends, by time or by Ctrl+C
MonitoringDone(byCtrlC) ==
    /\ script.pc = "monitoring"
    /\ script' = [script EXCEPT !.pc = "down", !.interrupted = byCtrlC]
    /\ UNCHANGED <<executorSide, txPreview, agentSide, requestSide, verifier>>

\* docker compose down | tee ends; runtime_phase stops the monitor and returns
\* 0, main goes on
DownDone ==
    /\ script.pc = "down"
    /\ script' = Finish([stop_resource_monitoring(script) EXCEPT
                            !.runtimeRet = "0", !.containersUp = FALSE], TRUE)
    /\ UNCHANGED <<executorSide, txPreview, agentSide, requestSide, verifier>>

\* monitor-only: Enter is pressed, the monitor is stopped, main returns
EnterPressed ==
    /\ script.pc = "read"
    /\ script' = [stop_resource_monitoring(script) EXCEPT !.pc = "exited", !.exit = "0"]
    /\ UNCHANGED <<executorSide, txPreview, agentSide, requestSide, verifier>>

\* the script is run again
Rerun ==
    /\ script.pc = "exited"
    /\ script' = NoScript
    /\ UNCHANGED <<executorSide, txPreview, agentSide, requestSide, verifier>>

NextScript ==
    \/ \E buildOnly, monitorOnly, monitorScript, prerequisites \in BOOLEAN :
          Launch(buildOnly, monitorOnly, monitorScript, prerequisites)
    \/ MonitorExits
    \/ MonitorPidRead
    \/ \E docker, tee \in BOOLEAN : BuildDone(docker, tee)
    \/ \E docker, tee \in BOOLEAN : UpDone(docker, tee)
    \/ Initialized
    \/ ContainersStopped
    \/ \E byCtrlC \in BOOLEAN : MonitoringDone(byCtrlC)
    \/ DownDone
    \/ EnterPressed
    \/ Rerun

SpecScript == Init /\ [][NextScript]_vars

TypeOK ==
    /\ txPlan \in TxPlans \cup {NULL}
    /\ isConnected \in BOOLEAN
    /\ chainId \in WalletChains \cup {NoChain}
    /\ approvalIndex \in Nat
    /\ DOMAIN stepStatus = 0..(totalApprovals - 1)
    /\ \A i \in DOMAIN stepStatus : stepStatus[i] \in Status
    /\ mainStatus \in Status
    /\ IsABag(inflight)
    /\ BagCardinality(inflight) <= MaxInFlight
    /\ lastCall.cmd \in {"none", "approveNext", "executeMain"}

\* ------------------------------------------------------- observation helpers
PendingApprovalSteps == {i \in DOMAIN stepStatus : stepStatus[i] = "pending"}

NumPending == Cardinality(PendingApprovalSteps) + (IF mainStatus = "pending" THEN 1 ELSE 0)

AllApprovalsSucceeded == \A i \in DOMAIN stepStatus : stepStatus[i] = "success"

IsLive(inv) == inv.cmd \in {"approve", "main"}

\* invocations of the attached plan whose sendTransaction is outstanding
LiveSends == {inv \in Suspended : IsLive(inv) /\ inv.pc = "send"}

RECURSIVE SumCopies(_, _)
SumCopies(bag, todo) ==
    IF todo = {} THEN 0
    ELSE LET inv == CHOOSE x \in todo : TRUE
         IN  bag[inv] + SumCopies(bag, todo \ {inv})

SendsInFlight == SumCopies(inflight, LiveSends)

StatusOf(inv) == IF inv.cmd = "approve" THEN stepStatus[inv.step] ELSE mainStatus

\* this step attaches a plan (AttachPlan(p) fixes txPlan' = p)
Attaching == AttachPlan(txPlan')

\* the invocations of the attached plan that this step touched: those that
\* were started, moved on or ended
LiveInvocations ==
    IF inflight' = inflight THEN {}
    ELSE {r \in BagToSet(inflight) \cup BagToSet(inflight') :
             IsLive(r) /\ CopiesIn(r, inflight') # CopiesIn(r, inflight)}

\* sendTransaction is issued by this step for command cmd, step i: an
\* invocation of (cmd, i) enters the "send" suspension.
SendIssued(cmd, i) ==
    \E r \in BagToSet(inflight') :
        /\ r.cmd = cmd /\ r.step = i /\ r.pc = "send"
        /\ CopiesIn(r, inflight') > CopiesIn(r, inflight)

\* a command passed its gate in this step: one more invocation is suspended
Started(r) ==
    /\ BagCardinality(inflight') > BagCardinality(inflight)
    /\ CopiesIn(r, inflight') > CopiesIn(r, inflight)

\* the switchChain call of invocation r ended in this step
SwitchEnded(r) == r.pc = "switch" /\ CopiesIn(r, inflight') < CopiesIn(r, inflight)

\* r's switchChain resolved and r went on to sendTransaction
SwitchResolved(r) ==
    /\ SwitchEnded(r)
    /\ CopiesIn([r EXCEPT !.pc = "send"], inflight') > CopiesIn([r EXCEPT !.pc = "send"], inflight)

AnySendIssued == \E r \in LiveInvocations : SendIssued(r.cmd, r.step)

AnySwitchIssued == \E r \in LiveInvocations : r.pc = "switch" /\ Started(r)

\* ------------------------------------------------------------------ claims

\* C1: at most one step of the plan (approval steps and main step together)
\* has status pending in every reachable state.
C1_AtMostOnePending == NumPending <= 1

\* C2: at any instant at most one sendTransaction request of the instance is
\* in flight, and no step whose status is already success has a submission
\* outstanding (each step is submitted at most once per successful completion).
C2_NoDoubleSubmission ==
    /\ SendsInFlight <= 1
    /\ \A inv \in LiveSends : StatusOf(inv) # "success"

\* C3: mainStatus becomes pending only in a state where every approval step's
\* status is success (or totalApprovals = 0).
C3_MainPendingOnlyAfterApprovals ==
    [][(mainStatus # "pending" /\ mainStatus' = "pending") => AllApprovalsSucceeded]_vars

\* C4: approval steps run strictly in plan order with no step skipped:
\* sendTransaction for approval step i is issued only when steps 0..i-1 all have
\* status success, and approvalIndex changes only by +1, only at the moment the
\* step at approvalIndex goes from pending to success.
C4_StrictPlanOrder ==
    [][Attaching \/
       (/\ \A i \in DOMAIN stepStatus :
              SendIssued("approve", i) => \A j \in 0..(i - 1) : stepStatus[j] = "success"
        /\ approvalIndex' # approvalIndex =>
              /\ approvalIndex' = approvalIndex + 1
              /\ approvalIndex \in DOMAIN stepStatus
              /\ stepStatus[approvalIndex] = "pending"
              /\ stepStatus'[approvalIndex] = "success")]_vars

\* C5: 0 <= approvalIndex <= totalApprovals in every reachable state.
C5_IndexInRange == 0 <= approvalIndex /\ approvalIndex <= totalApprovals

\* C6: for a plan with totalApprovals = N > 0, canExecute is false whenever
\* approvalIndex < N or some approval step's status is not success.
C6_ExecuteGatedByApprovals ==
    (totalApprovals > 0 /\ (approvalIndex < totalApprovals \/ ~AllApprovalsSucceeded)) => ~canExecute

\* C7: invoked while the wallet's chain (passed as currentChainId) differs
\* from the step's chainId, a command calls switchChain and sends only after
\* it resolved (the wallet is then on the step's chain); when switchChain rejects, the step's status
\* becomes error(chain-switch-failed), that invocation never calls
\* sendTransaction, and approvalIndex is unchanged.
C7_SwitchBeforeSend ==
    [][Attaching \/
       \A r \in LiveInvocations :
          /\ Started(r) =>
                IF chainId # r.chain
                THEN r.pc = "switch" /\ ~AnySendIssued /\ UNCHANGED execState
                ELSE r.pc = "send"
          /\ SwitchEnded(r) =>
                \/ SwitchResolved(r) /\ chainId' = r.chain
                \/ /\ ~AnySendIssued
                   /\ BagCardinality(inflight') = BagCardinality(inflight) - 1
                   /\ StatusOf(r)' = "chain-switch-failed"
                   /\ approvalIndex' = approvalIndex]_vars

\* C7 witness: a command was invoked on another chain, its switchChain was
\* rejected, and the step is left in error(chain-switch-failed) with nothing
\* submitted and the cursor at that step.
C7_Witness ==
    /\ inflight = EmptyBag
    /\ approvalIndex \in DOMAIN stepStatus
    /\ stepStatus[approvalIndex] = "chain-switch-failed"
    /\ chainId = OtherChain

\* C8: when the wallet call of the approval step at approvalIndex fails, that
\* step's status is an error, approvalIndex keeps its value and canExecute
\* stays false; approveNext() then re-submits the same step, and approvalIndex
\* advances only by that retry succeeding (not while the step is in error).
C8_FailedApprovalRetry ==
    [][Attaching \/
       /\ \A r \in LiveInvocations :
             (/\ r.cmd = "approve" /\ r.step = approvalIndex /\ r.pc = "send"
              /\ CopiesIn(r, inflight') < CopiesIn(r, inflight)
              /\ StatusOf(r)' \in SendErrors)
             => approvalIndex' = approvalIndex /\ ~canExecute /\ ~canExecute'
       /\ (approvalIndex \in DOMAIN stepStatus /\ stepStatus[approvalIndex] \in SendErrors) =>
             /\ approvalIndex' = approvalIndex
             /\ ~canExecute'
             /\ \A r \in LiveInvocations : (Started(r) /\ r.cmd = "approve") => r.step = approvalIndex
             /\ \A i \in DOMAIN stepStatus : SendIssued("approve", i) =>
                   i = approvalIndex /\ stepStatus'[i] = "pending"]_vars

\* C9: approveNext() with canApprove false and executeMain() with canExecute
\* false change nothing (approvalIndex, every stepStatus, mainStatus) and call
\* neither switchChain nor sendTransaction; no invocation ever starts behind a
\* false gate.
C9_GatedCommandsAreNoOps ==
    [][/\ (lastCall'.cmd = "approveNext" /\ ~canApprove) => UNCHANGED <<txPlan, wallet, execState, inflight>>
       /\ (lastCall'.cmd = "executeMain" /\ ~canExecute) => UNCHANGED <<txPlan, wallet, execState, inflight>>
       /\ Attaching \/ \A r \in LiveInvocations :
             Started(r) => IF r.cmd = "approve" THEN canApprove ELSE canExecute]_vars

\* C9 witness: approveNext() has just been called while the approval at
\* approvalIndex was pending with its sendTransaction outstanding (a duplicate
\* click), and it was refused.
C9_Witness ==
    /\ lastCall = Call("approveNext", FALSE)
    /\ isConnected /\ planPresent
    /\ isApprovalPending
    /\ SendsInFlight = 1

\* C10: once mainStatus is success the plan is terminal: until a new plan is
\* attached canApprove and canExecute are false, no status and no approvalIndex
\* changes, and no switchChain or sendTransaction is issued.
C10_SuccessIsTerminal ==
    [][mainStatus = "success" =>
          \/ Attaching
          \/ /\ ~canApprove /\ ~canExecute
             /\ ~canApprove' /\ ~canExecute'
             /\ UNCHANGED execState
             /\ ~AnySendIssued /\ ~AnySwitchIssued]_vars

\* one status change of the step that command cmd, step i drives
LegalChange(cmd, i, a, b) ==
    \/ a = b
    \/ a = "idle" /\ b = "pending"
    \/ a = "pending" /\ b = "success"
    \/ a = "pending" /\ b \in ErrorReasons
    \/ a \in ErrorReasons /\ b = "pending" /\ SendIssued(cmd, i)

\* C11: every status change of every step (approval or main) is one of
\* idle->pending, pending->success, pending->error, error->pending; success is
\* never left, idle is never re-entered, and error->pending happens only as the
\* effect of an approveNext()/executeMain() invocation reaching its submission.
C11_LegalStatusChanges ==
    [][Attaching \/
       /\ \A i \in DOMAIN stepStatus : LegalChange("approve", i, stepStatus[i], stepStatus'[i])
       /\ LegalChange("main", totalApprovals, mainStatus, mainStatus')]_vars

\* invocation r returned in this step: its wallet call settled and it is no
\* longer suspended
Ended(r) == CopiesIn(r, inflight') < CopiesIn(r, inflight) /\ ~SwitchResolved(r)

\* no status but the one of r's step changes in this step
OnlyStepOf(r) ==
    /\ \A j \in DOMAIN stepStatus : (r.cmd = "approve" /\ j = r.step) \/ stepStatus'[j] = stepStatus[j]
    /\ r.cmd = "main" \/ mainStatus' = mainStatus

\* C12: every invocation of approveNext()/executeMain() returns with its
\* outcome recorded on exactly the step it attempted; a wallet rejection,
\* chain-switch rejection or revert leaves error(reason) there, and then (while
\* connected with the plan present) the corresponding command is enabled again.
C12_FailureIsRetryable ==
    [][Attaching \/
       \A r \in LiveInvocations :
          Ended(r) =>
             /\ OnlyStepOf(r)
             /\ StatusOf(r)' \in {"success"} \cup ErrorReasons
             /\ (StatusOf(r)' \in ErrorReasons /\ isConnected' /\ planPresent') =>
                   IF r.cmd = "approve" THEN canApprove' ELSE canExecute']_vars

\* C13: while the wallet is disconnected or the plan is null, canApprove and
\* canExecute are false, and a command invoked in such a state issues no
\* switchChain or sendTransaction and changes no status: the gate a command
\* uses is derived from the connection snapshot at the invocation.
C13_NoActionWhileDisconnected ==
    [][/\ (~isConnected \/ txPlan = NULL) => ~canApprove /\ ~canExecute
       /\ (lastCall'.cmd # "none" /\ (~isConnected \/ txPlan = NULL)) =>
             /\ UNCHANGED <<execState, inflight>>
             /\ ~AnySendIssued /\ ~AnySwitchIssued]_vars

\* C13 witness: executeMain() has just been called on a plan that was ready
\* to execute, after the wallet disconnected, and was refused.
C13_Witness ==
    /\ lastCall = Call("executeMain", FALSE)
    /\ ~isConnected
    /\ planPresent /\ isApprovalPhaseComplete /\ mainStatus = "idle"
    /\ inflight = EmptyBag

\* the empty plan [] is attached
emptyPlanAttached == txPlan # NULL /\ PlanLen(txPlan) = 0

\* C14: with the empty plan [] attached, totalApprovals = 0 and canExecute is
\* false in every state (until the plan is replaced); no invocation of the
\* empty plan is ever started, so nothing is submitted for it.
C14_EmptyPlanNeverSubmitted ==
    emptyPlanAttached =>
        /\ totalApprovals = 0
        /\ ~canExecute /\ ~canApprove
        /\ mainStatus = "idle"
        /\ \A r \in Suspended : ~IsLive(r)

\* C14 witness: executeMain() has just been called with the wallet connected
\* and the empty plan attached, and was refused.
C14_Witness ==
    /\ emptyPlanAttached
    /\ isConnected
    /\ lastCall = Call("executeMain", FALSE)

C16_SuccessBelowIndex ==
    /\ \A i \in DOMAIN stepStatus : stepStatus[i] = "success" <=> i < approvalIndex
    /\ isApprovalPhaseComplete <=> AllApprovalsSucceeded

\* C17: for every response of a read-only operation and every response
\* without metadata the extract functions return txPlan = null; a non-null
\* txPlan is returned only for a write operation carrying txData, and it is
\* then exactly one step (totalApprovals = 0) whose to/data/value are the
\* response's txData and whose chainId is 421614.
C17_ExtractContract ==
    extracted # NotExtracted =>
        LET metadata == response.metadata
            plan == extracted.txPlan
        IN  /\ (~metadata.present \/ metadata.operation \in ReadOnlyOps) => plan = NULL
            /\ plan # NULL =>
                  /\ metadata.present
                  /\ metadata.operation \in WriteOps
                  /\ metadata.txData.present
                  /\ PlanLen(plan) = 1
                  /\ TotalApprovalsOf(plan) = 0
                  /\ plan.steps[1].to = metadata.txData.to
                  /\ plan.steps[1].data = metadata.txData.data
                  /\ plan.steps[1].value = metadata.txData.value
                  /\ plan.steps[1].chainId = 421614

\* C17 witness: a multisig response of the read-only operation isOwner that
\* nevertheless carries txData has been extracted (to a null plan).
C17_Witness ==
    /\ extracted # NotExtracted
    /\ response.agent = "multisig"
    /\ response.metadata.present
    /\ response.metadata.operation = "isOwner"
    /\ response.metadata.txData.present
    /\ extracted.txPlan = NULL
    /\ extracted.txPreview = Preview(response.metadata)

\* how many of the given flags are set
CountTrue(flags) == Cardinality({i \in DOMAIN flags : flags[i]})

\* C18: isTxPending, isTxSuccess and txError mirror mainStatus: at most one of
\* them is set, none is set iff mainStatus is idle, and the three main-status
\* banners of the card are never shown together.
C18_MainFlagsExclusive ==
    /\ CountTrue(<<isTxPending, isTxSuccess, txError # NoError>>) <= 1
    /\ CountTrue(<<isTxPending, isTxSuccess, txError # NoError>>) = 0 <=> mainStatus = "idle"
    /\ txError # NoError => txError = mainStatus
    /\ CountTrue(<<bannerTxSuccess, bannerTxPending, bannerTxError>>) <= 1

\* C18 witness: the main transaction failed after all approvals had succeeded
\* and the card shows the Execution Error banner alone.
C18_Witness ==
    /\ needsApproval /\ AllApprovalsSucceeded
    /\ mainStatus \in SendErrors
    /\ bannerTxError /\ ~bannerTxPending /\ ~bannerTxSuccess

\* Scenario B: a plan of 2 approval steps + 1 main step is attached, the
\* wallet is connected on the plan's chain, and k approvals have succeeded.
ScenarioB(k, statusOfNext, mainSt, outstanding) ==
    /\ PlanLen(txPlan) = 3
    /\ isConnected /\ chainId = ArbitrumSepolia
    /\ approvalIndex = k
    /\ \A i \in DOMAIN stepStatus :
          stepStatus[i] = IF i < k THEN "success" ELSE IF i = k THEN statusOfNext ELSE "idle"
    /\ mainStatus = mainSt
    /\ inflight = outstanding

Quiet(k) == ScenarioB(k, "idle", "idle", EmptyBag)

\* sendTransaction of approval step k is the one outstanding request
Approving(k) ==
    ScenarioB(k, "pending", "idle", SetToBag({Invocation("approve", k, ArbitrumSepolia, "send")}))

Executing == ScenarioB(2, "idle", "pending", SetToBag({Invocation("main", 2, ArbitrumSepolia, "send")}))

Executed == ScenarioB(2, "idle", "success", EmptyBag)

\* the outstanding wallet call of this step settles without an error
CallSucceeds ==
    /\ inflight # EmptyBag /\ inflight' = EmptyBag
    /\ UNCHANGED <<txPlan, wallet>>
    /\ mainStatus' \notin ErrorReasons
    /\ \A i \in DOMAIN stepStatus : stepStatus'[i] \notin ErrorReasons

NoOp == UNCHANGED <<txPlan, wallet, execState, inflight>>

\* C19: for a plan of 2 approval steps + 1 main step on the wallet's chain with
\* every wallet call succeeding, approveNext, approveNext, executeMain produce
\* step0 pending->success with approvalIndex 0->1, step1 pending->success with
\* approvalIndex 1->2, isApprovalPhaseComplete, main pending->success; each
\* command issues exactly one sendTransaction, for the next step of the plan,
\* and any other command on the way is a no-op.
C19_ScenarioB ==
    [][PlanLen(txPlan) = 3 =>
       /\ \A k \in 0..1 :
             /\ (Quiet(k) /\ lastCall'.cmd = "approveNext") =>
                    Approving(k)' /\ SendIssued("approve", k) /\ ~isApprovalPhaseComplete
             /\ (Quiet(k) /\ lastCall'.cmd = "executeMain") => NoOp
             /\ (Approving(k) /\ lastCall'.cmd # "none") => NoOp
             /\ (Approving(k) /\ CallSucceeds) => Quiet(k + 1)'
       /\ Quiet(2) => isApprovalPhaseComplete
       /\ (Quiet(2) /\ lastCall'.cmd = "approveNext") => NoOp
       /\ (Quiet(2) /\ lastCall'.cmd = "executeMain") => Executing' /\ SendIssued("main", 2)
       /\ (Executing /\ lastCall'.cmd # "none") => NoOp
       /\ (Executing /\ CallSucceeds) => Executed'
       /\ (Executed /\ lastCall'.cmd # "none") => NoOp]_vars

\* C19 witness: the end of Scenario B: both approvals and the main
\* transaction succeeded, nothing is outstanding.
C19_Witness == Executed /\ AllApprovalsSucceeded /\ isTxSuccess

ApprovalPendingAt(i) == i \in DOMAIN stepStatus /\ stepStatus[i] = "pending"

\* some sendTransaction of (cmd, i) is outstanding
SendOutstanding(cmd, i) == \E r \in LiveSends : r.cmd = cmd /\ r.step = i

\* C20: a pending step always has a sendTransaction of its own outstanding;
\* it leaves pending only when a wallet request of that step settles (the
\* executor never cancels it or times it out) and then only to success or
\* error, never to idle; and the settlement of a step's sendTransaction always
\* leaves that step in success or error. So, provided every outstanding wallet
\* request eventually resolves or rejects, every pending step eventually
\* becomes success or error.
C20_PendingEndsBySettlement ==
    [][Attaching \/
       /\ \A i \in DOMAIN stepStatus :
             /\ stepStatus[i] = "pending" => SendOutstanding("approve", i)
             /\ (stepStatus[i] = "pending" /\ stepStatus'[i] # "pending") =>
                   /\ stepStatus'[i] \in {"success"} \cup ErrorReasons
                   /\ \E r \in LiveInvocations : r.cmd = "approve" /\ r.step = i /\ Ended(r)
       /\ mainStatus = "pending" => \E r \in LiveSends : r.cmd = "main"
       /\ (mainStatus = "pending" /\ mainStatus' # "pending") =>
             /\ mainStatus' \in {"success"} \cup ErrorReasons
             /\ \E r \in LiveInvocations : r.cmd = "main" /\ Ended(r)
       /\ \A r \in LiveInvocations :
             (r.pc = "send" /\ Ended(r)) => StatusOf(r)' \in {"success"} \cup ErrorReasons]_vars

\* C20 witness: the main step is pending with its sendTransaction outstanding
\* after the wallet disconnected: the request is neither cancelled nor timed
\* out.
C20_Witness ==
    /\ ~isConnected
    /\ mainStatus = "pending"
    /\ SendsInFlight = 1

\* The same as a temporal formula under SpecLive: every step that becomes
\* pending eventually is no longer pending (success, error, or plan replaced).
C20_PendingEventuallySettles ==
    /\ \A i \in 0..(MaxPlanLen - 1) : ApprovalPendingAt(i) ~> ~ApprovalPendingAt(i)
    /\ (mainStatus = "pending") ~> (mainStatus # "pending")

\* some invocation of a replaced plan still has its wallet request outstanding
StaleOutstanding == \E r \in Suspended : ~IsLive(r)

\* C21: totalApprovals equals max(0, plan.length - 1), stepStatus has one
\* entry per approval step, and neither changes while the same plan is
\* attached; when another plan replaces the attached one the ExecutionState
\* is fresh (approvalIndex = 0, every stepStatus and mainStatus idle) whatever
\* the previous plan's state was.
C21_FreshStateOnReplacement ==
    [][/\ totalApprovals = Max(0, PlanLen(txPlan) - 1)
       /\ DOMAIN stepStatus = 0..(totalApprovals - 1)
       /\ txPlan' = txPlan =>
             totalApprovals' = totalApprovals /\ DOMAIN stepStatus' = DOMAIN stepStatus
       /\ txPlan' # txPlan =>
             /\ approvalIndex' = 0
             /\ DOMAIN stepStatus' = 0..(TotalApprovalsOf(txPlan') - 1)
             /\ \A i \in DOMAIN stepStatus' : stepStatus'[i] = "idle"
             /\ mainStatus' = "idle"]_vars

\* C21 witness: a plan with approvals was attached in place of another one
\* whose wallet request is still outstanding, and its ExecutionState is fresh.
C21_Witness ==
    /\ needsApproval
    /\ StaleOutstanding
    /\ approvalIndex = 0 /\ mainStatus = "idle"
    /\ \A i \in DOMAIN stepStatus : stepStatus[i] = "idle"

\* the wallet request of an invocation of a replaced plan settles in this step
StaleSettles ==
    \E r \in Suspended : ~IsLive(r) /\ CopiesIn(r, inflight') < CopiesIn(r, inflight)

StepChainOf(r) ==
    IF r.cmd = "approve" THEN txPlan.steps[r.step + 1].chainId ELSE txPlan.steps[PlanLen(txPlan)].chainId

C24_ButtonsExclusive ==
    /\ ~(canApprove /\ canExecute)
    /\ ~(approveButtonEnabled /\ executeButtonEnabled)

\* C24 witness: after the last approval the Approve button is rendered but
\* disabled and the Execute button is enabled.
C24_Witness ==
    /\ approveButton /\ ~approveButtonEnabled
    /\ executeButtonEnabled
    /\ AllApprovalsSucceeded

\* C25: whenever isApprovalPending is true, approvalIndex < totalApprovals; so
\* isApprovalPending is false while the approval phase is complete and while
\* the main step is pending, and the progress texts "Processing Approval k/N"
\* and "Approving k/N..." are shown only with 1 <= k <= N.
C25_ApprovalPendingBelowTotal ==
    /\ isApprovalPending => approvalIndex < totalApprovals
    /\ (isApprovalPhaseComplete \/ mainStatus = "pending") => ~isApprovalPending
    /\ (bannerApprovalPending \/ labelApproving) =>
          (1 <= progressStep /\ progressStep <= totalApprovals)

\* C25 witness: the last of two approvals is pending, the text shows 2/2.
C25_Witness ==
    /\ bannerApprovalPending /\ labelApproving
    /\ totalApprovals = 2 /\ progressStep = totalApprovals

\* C26: no Approve or Execute button is rendered when txPlan is null (with a
\* preview the read-only card is shown instead), when txPreview is null or
\* when the wallet is not connected; the Approve button is rendered only when
\* totalApprovals > 0; so the card never invokes approveNext() or
\* executeMain() for a null plan or a disconnected wallet.
C26_CommandsOnlyFromRenderedButtons ==
    [][/\ (approveButton \/ executeButton) => (txPlan # NULL /\ txPreview /\ isConnected)
       /\ approveButton => totalApprovals > 0
       /\ (txPlan = NULL /\ txPreview) => (readOnlyCard /\ ~approveButton /\ ~executeButton)
       /\ lastCall'.cmd # "none" => (txPlan # NULL /\ txPreview /\ isConnected)
       /\ lastCall'.cmd = "approveNext" => approveButtonEnabled
       /\ lastCall'.cmd = "executeMain" => executeButtonEnabled]_vars

\* C26 witness: the Approve button was clicked and its approval is pending.
C26_Witness ==
    /\ lastCall.cmd = "approveNext" /\ lastCall.gate
    /\ approveButton /\ isApprovalPending

\* the operation types for which some MultisigTradeAgent attaches txData
PreparedWriteOps == TxDataOps("MultisigTradeAgent") \cup TxDataOps("MultisigTradeAgentSubmit")

\* C27: for every operation type for which a MultisigTradeAgent variant
\* attaches metadata.txData, each extractMultisigTransactionData variant
\* returns a non-null single-step txPlan.
C27_PreparedWriteIsExecutable ==
    (/\ extracted # NotExtracted
     /\ instruction.agent \in {"MultisigTradeAgent", "MultisigTradeAgentSubmit"}
     /\ task.metadata.present /\ task.metadata.txData.present
     /\ task.metadata.operation \in PreparedWriteOps)
        => (extracted.txPlan # NULL /\ Len(extracted.txPlan.steps) = 1)

failed(in) ==
    \/ in.parsed = "throws"
    \/ in.parsed \in CheckedOps(in.agent) /\ ~in.fields
    \/ in.handler = "throws"

C29_SuccessOnlyAfterVerifyProof ==
    verifier.pc # "unmounted" =>
        /\ verifier.invoked <=> verifier.returned = "true"
        /\ verifier.returned # "none" => verifier.pc = "idle"
        /\ verifier.pc = "idle" => ~verifier.loading
        /\ verifier.pc # "idle" => (verifier.loading /\ ~verifier.invoked)

\* C29 witness: the first proof attempt failed, the second succeeded,
\* verifyProof returned true and the callback was invoked.
C29_Witness ==
    /\ verifier.pc = "idle"
    /\ verifier.attempts = 2 /\ verifier.returned = "true" /\ verifier.invoked
    /\ ~verifier.loading

====
